---------------------------- MODULE Spec2Model ----------------------------
(***************************************************************************)
(* A model of packages/slinkity/src/vite.cts: the single-flight dev-server *)
(* coordinator (createViteServer), the production build's directory swap   *)
(* (productionBuild), the props virtual-module plugin, the head-injection  *)
(* transform and the renderer config fold.                                 *)
(*                                                                         *)
(* Each component has its own specification over the shared variables:     *)
(*   Spec       createViteServer / getOrInitialize                         *)
(*   SpecBuild  productionBuild                                            *)
(*   SpecProps  slinkityPropsPlugin / getPropsModContents                  *)
(*   SpecHead   slinkityInjectHeadPlugin                                   *)
(*   SpecMerge  mergeRendererConfigs                                       *)
(* A specification leaves the variables of the other components at their   *)
(* idle values.                                                            *)
(***************************************************************************)
EXTENDS Integers, Sequences, FiniteSets, TLC

VARIABLES
    \* ---- createViteServer closure (vite.cts 78-79) and its environment
    viteServer,       \* let viteServer: NoServer while undefined
    awaitingServer,   \* let awaitingServer: the resolvers, one per queued caller
    creations,        \* the promises vite.createServer returned, in call order
    promise,          \* per caller: the promise getOrInitialize returned to it
    invoked,          \* per caller: how often its resolver was invoked
    notified,         \* the order in which resolvers were invoked
    \* ---- productionBuild (vite.cts 13-56) and the file system it acts on
    pc,               \* the position of the productionBuild call
    outputDir,        \* the directory at resolvedOutput
    tempDir,          \* the directory at eleventyTempBuildDir
    preOutput,        \* outputDir as it was when productionBuild was called
    preTemp,          \* tempDir as it was when productionBuild was called
    inputFiles,       \* const inputFiles
    bundlerInput,     \* rollupOptions.input of the config given to vite.build
    error,            \* the error in flight, then the error raised to the caller
    steps,            \* the file-system and bundler operations, in order
    \* ---- slinkityPropsPlugin (vite.cts 99-151)
    propsByInputPath, \* the PageProps map the plugin was made with
    propsReq,         \* the id last given to resolveId or load
    propsResolved,    \* what resolveId returned for it
    propsLoaded,      \* what load returned for it
    \* ---- slinkityInjectHeadPlugin (vite.cts 153-182)
    pageByRelOutputPath,
    cssUrlsByInputPath,
    headCtx,          \* the ctx of the last transform call
    headTags,         \* what the last transform call returned
    headReads,        \* the map lookups the last transform call made
    \* ---- mergeRendererConfigs (vite.cts 184-195)
    baseConfig,       \* the viteConfig argument
    userConfig,       \* the userConfig argument
    mergedConfig      \* the value returned

serverVars == <<viteServer, awaitingServer, creations, promise, invoked, notified>>

buildVars == <<pc, outputDir, tempDir, preOutput, preTemp, inputFiles,
               bundlerInput, error, steps>>

propsVars == <<propsByInputPath, propsReq, propsResolved, propsLoaded>>

headVars == <<pageByRelOutputPath, cssUrlsByInputPath, headCtx, headTags, headReads>>

mergeVars == <<baseConfig, userConfig, mergedConfig>>

vars == <<serverVars, buildVars, propsVars, headVars, mergeVars>>

\* The variables of the other components, which an action leaves alone.
notServer == <<buildVars, propsVars, headVars, mergeVars>>
notBuild == <<serverVars, propsVars, headVars, mergeVars>>
notProps == <<serverVars, buildVars, headVars, mergeVars>>
notHead == <<serverVars, buildVars, propsVars, mergeVars>>
notMerge == <<serverVars, buildVars, propsVars, headVars>>

--------------------------------------------------------------------------
(* Idle values: the state of a component no operation of which is running *)

\* A path at which there is no directory.
Absent == [exists |-> FALSE, kind |-> "none", files |-> {}]

BuildIdle ==
    /\ pc = "off"
    /\ outputDir = Absent
    /\ tempDir = Absent
    /\ preOutput = Absent
    /\ preTemp = Absent
    /\ inputFiles = {}
    /\ bundlerInput = {}
    /\ error = "none"
    /\ steps = <<>>

\* An id: a string, as the sequence of its pieces.  No id at all (undefined,
\* a hook that declines) is NoId.
NoId == <<"<undefined>">>

NotLoaded == [id |-> NoId, declined |-> TRUE, inputPath |-> NoId, code |-> <<>>]

PropsIdle ==
    /\ propsByInputPath = <<>>
    /\ propsReq = NoId
    /\ propsResolved = NoId
    /\ propsLoaded = NotLoaded

HeadIdle ==
    /\ pageByRelOutputPath = <<>>
    /\ cssUrlsByInputPath = <<>>
    /\ headCtx = [originalUrl |-> "", path |-> ""]
    /\ headTags = <<>>
    /\ headReads = <<>>

NoConfig == [plugins |-> <<>>, mode |-> "<undefined>"]

MergeIdle ==
    /\ baseConfig = NoConfig
    /\ userConfig = [hasRenderers |-> FALSE, renderers |-> <<>>]
    /\ mergedConfig = [returned |-> FALSE, config |-> NoConfig]

--------------------------------------------------------------------------
(* createViteServer *)

\* The number of callers (requests) that may call getOrInitialize.
MaxCallers == 4

Callers == 1..MaxCallers

\* `let viteServer` before the creation callback assigned it.
NoServer == 0

\* The state of the creation at the moment a call is made.
CreationPhase ==
    IF creations = <<>> THEN "not-started" ELSE creations[Len(creations)]

\* The getOrInitialize calls made so far.
CallsMade == Cardinality({c \in Callers : promise[c].state # "none"})

\* A caller's promise: its state and value, and when the call was made (the
\* state of the creation then, and the call's place among all calls).
IdlePromise == [state |-> "none", value |-> NoServer, at |-> "never", seq |-> 0]

ServerInit ==
    /\ viteServer = NoServer
    /\ awaitingServer = <<>>
    /\ creations = <<>>
    /\ promise = [c \in Callers |-> IdlePromise]
    /\ invoked = [c \in Callers |-> 0]
    /\ notified = <<>>

\* A bug variant: every call that finds no cached server starts a creation.
getOrInitialize_NoCoalescing(c) ==
    /\ UNCHANGED notServer
    /\ promise[c].state = "none"
    /\ IF viteServer # NoServer
       THEN /\ promise' = [promise EXCEPT ![c] =
                 [state |-> "resolved", value |-> viteServer, at |-> CreationPhase,
                  seq |-> CallsMade + 1]]
            /\ UNCHANGED <<viteServer, awaitingServer, creations, invoked, notified>>
       ELSE /\ creations' = Append(creations, "pending")
            /\ awaitingServer' = Append(awaitingServer, c)
            /\ promise' = [promise EXCEPT ![c] =
                 [state |-> "pending", value |-> NoServer, at |-> CreationPhase,
                  seq |-> CallsMade + 1]]
            /\ UNCHANGED <<viteServer, invoked, notified>>

\* A bug variant: the cached instance is never returned directly.
getOrInitialize_NoCacheCheck(c) ==
    /\ UNCHANGED notServer
    /\ promise[c].state = "none"
    /\ creations' = IF Len(awaitingServer) = 0
                    THEN Append(creations, "pending") ELSE creations
    /\ awaitingServer' = Append(awaitingServer, c)
    /\ promise' = [promise EXCEPT ![c] =
         [state |-> "pending", value |-> NoServer, at |-> CreationPhase,
                  seq |-> CallsMade + 1]]
    /\ UNCHANGED <<viteServer, invoked, notified>>

\* getOrInitialize(), called by caller c.  The async function has no await,
\* so its body runs to completion within the call.
getOrInitialize(c) ==
    /\ UNCHANGED notServer
    /\ promise[c].state = "none"
    /\ IF viteServer # NoServer
       THEN \* line 82: resolve with the cached instance
            /\ promise' = [promise EXCEPT ![c] =
                 [state |-> "resolved", value |-> viteServer, at |-> CreationPhase,
                  seq |-> CallsMade + 1]]
            /\ UNCHANGED <<viteServer, awaitingServer, creations, invoked, notified>>
       ELSE \* lines 84-91: start the creation when nobody is queued
            /\ creations' = IF Len(awaitingServer) = 0
                            THEN Append(creations, "pending") ELSE creations
            \* lines 92-94: queue the caller's resolver
            /\ awaitingServer' = Append(awaitingServer, c)
            /\ promise' = [promise EXCEPT ![c] =
                 [state |-> "pending", value |-> NoServer, at |-> CreationPhase,
                  seq |-> CallsMade + 1]]
            /\ UNCHANGED <<viteServer, invoked, notified>>

\* resolve(value) of a promise: settles it once, later calls are no-ops.
Resolve(p, value) ==
    IF p.state = "pending" THEN [p EXCEPT !.state = "resolved", !.value = value] ELSE p

\* Occurrences of c in the queue.
Count(q, c) == Cardinality({i \in 1..Len(q) : q[i] = c})

\* A bug variant: only the resolver of the caller that started the creation
\* is invoked; callers queued while it was in flight are never woken.
createServerFulfilled_FirstOnly(k) ==
    /\ UNCHANGED notServer
    /\ k \in 1..Len(creations)
    /\ creations[k] = "pending"
    /\ creations' = [creations EXCEPT ![k] = "fulfilled"]
    /\ viteServer' = k
    /\ promise' = [c \in Callers |->
                     IF c = Head(awaitingServer)
                     THEN Resolve(promise[c], k) ELSE promise[c]]
    /\ invoked' = [c \in Callers |->
                     IF c = Head(awaitingServer) THEN invoked[c] + 1 ELSE invoked[c]]
    /\ notified' = Append(notified, Head(awaitingServer))
    /\ UNCHANGED awaitingServer

Reverse(q) == [i \in 1..Len(q) |-> q[Len(q) + 1 - i]]

\* A bug variant: the resolvers are invoked last-in first-out.
createServerFulfilled_Lifo(k) ==
    /\ UNCHANGED notServer
    /\ k \in 1..Len(creations)
    /\ creations[k] = "pending"
    /\ creations' = [creations EXCEPT ![k] = "fulfilled"]
    /\ viteServer' = k
    /\ promise' = [c \in Callers |->
                     IF Count(awaitingServer, c) > 0
                     THEN Resolve(promise[c], k) ELSE promise[c]]
    /\ invoked' = [c \in Callers |-> invoked[c] + Count(awaitingServer, c)]
    /\ notified' = notified \o Reverse(awaitingServer)
    /\ UNCHANGED awaitingServer

\* vite.createServer's k-th promise fulfils with a fresh server object (k) and
\* the .then callback of lines 85-90 runs: cache it, invoke every resolver.
createServerFulfilled(k) ==
    /\ UNCHANGED notServer
    /\ k \in 1..Len(creations)
    /\ creations[k] = "pending"
    /\ creations' = [creations EXCEPT ![k] = "fulfilled"]
    /\ viteServer' = k
    /\ promise' = [c \in Callers |->
                     IF Count(awaitingServer, c) > 0
                     THEN Resolve(promise[c], k) ELSE promise[c]]
    /\ invoked' = [c \in Callers |-> invoked[c] + Count(awaitingServer, c)]
    /\ notified' = notified \o awaitingServer
    /\ UNCHANGED awaitingServer

\* A bug variant ("corrected" behaviour the code does not have): a failed
\* creation rejects the queued callers and empties the queue so a later call
\* retries.
createServerRejected_RejectQueue(k) ==
    /\ UNCHANGED notServer
    /\ k \in 1..Len(creations)
    /\ creations[k] = "pending"
    /\ creations' = [creations EXCEPT ![k] = "rejected"]
    /\ promise' = [c \in Callers |->
                     IF Count(awaitingServer, c) > 0 /\ promise[c].state = "pending"
                     THEN [promise[c] EXCEPT !.state = "rejected"] ELSE promise[c]]
    /\ awaitingServer' = <<>>
    /\ UNCHANGED <<viteServer, invoked, notified>>

\* vite.createServer's k-th promise rejects: the chain of line 85 has no
\* rejection handler, so nothing of the closure changes.
createServerRejected(k) ==
    /\ UNCHANGED notServer
    /\ k \in 1..Len(creations)
    /\ creations[k] = "pending"
    /\ creations' = [creations EXCEPT ![k] = "rejected"]
    /\ UNCHANGED <<viteServer, awaitingServer, promise, invoked, notified>>

ServerNext ==
    \/ \E c \in Callers : getOrInitialize(c)
    \/ \E k \in 1..MaxCallers : createServerFulfilled(k)
    \/ \E k \in 1..MaxCallers : createServerRejected(k)

Init == ServerInit /\ BuildIdle /\ PropsIdle /\ HeadIdle /\ MergeIdle

Next == ServerNext

Spec == Init /\ [][Next]_vars

--------------------------------------------------------------------------
(* Properties of createViteServer *)

Called(c) == promise[c].state # "none"

\* C1: over any interleaving of getOrInitialize calls (before the creation
\* starts, while it is in flight, after it completed, after it failed),
\* vite.createServer is called at most once, and exactly once as soon as one
\* getOrInitialize call has been made.
C1_CreateServerCalledOnce ==
    /\ Len(creations) <= 1
    /\ (\E c \in Callers : Called(c)) => Len(creations) = 1

\* C1 witness: calls were made while the creation was in flight and after it
\* failed, and there is still one creation only.
C1_Witness ==
    /\ Len(creations) = 1
    /\ \E c1, c2, c3 \in Callers :
          /\ promise[c1].at = "not-started"
          /\ promise[c2].at = "pending"
          /\ promise[c3].at = "rejected"

\* A call made by c in this step.
CallStep(c) == ~Called(c) /\ promise'[c].state # "none"

\* C2: every getOrInitialize call whose promise resolves, queued or made
\* after the instance was cached, resolves to the one instance the single
\* creation produced; a call made once the instance exists resolves with it
\* without queueing a resolver or starting a creation.
C2_SameInstance ==
    /\ [](\A c \in Callers :
            promise[c].state = "resolved" =>
               /\ creations = <<"fulfilled">>
               /\ viteServer = 1
               /\ promise[c].value = viteServer)
    /\ [][\A c \in Callers :
            (viteServer # NoServer /\ CallStep(c)) =>
               /\ promise'[c].state = "resolved"
               /\ promise'[c].value = viteServer
               /\ awaitingServer' = awaitingServer
               /\ creations' = creations]_vars

\* C2 witness: one caller was resolved from the queue, another from the cache.
C2_Witness ==
    \E c1, c2 \in Callers :
       /\ promise[c1].state = "resolved" /\ promise[c1].at = "pending"
       /\ promise[c2].state = "resolved" /\ promise[c2].at = "fulfilled"
       /\ promise[c1].value = promise[c2].value

CreationFailed == \E k \in 1..Len(creations) : creations[k] = "rejected"

\* C6: once vite.createServer rejected, no queued caller is resolved or
\* rejected, every later call stays pending too and starts no new creation.
C6_FailureStallsEveryCaller ==
    /\ [](CreationFailed =>
            /\ viteServer = NoServer
            /\ Len(creations) = 1
            /\ \A c \in Callers : promise[c].state \in {"none", "pending"}
            /\ \A c \in Callers : Called(c) => Count(awaitingServer, c) = 1)
    /\ [][CreationFailed => CreationFailed']_vars

\* C6 witness: the creation failed with a caller queued, and a caller that
\* called afterwards is pending as well.
C6_Witness ==
    /\ CreationFailed
    /\ \E c1, c2 \in Callers :
          /\ promise[c1].at = "pending" /\ promise[c1].state = "pending"
          /\ promise[c2].at = "rejected" /\ promise[c2].state = "pending"

CreationSucceeded == \E k \in 1..Len(creations) : creations[k] = "fulfilled"

\* C11: if the single creation completes successfully, every getOrInitialize
\* call is resolved: a caller that queued its resolver at any point before
\* the completion callback ran (also between the start of the creation and
\* its completion) is resolved by that callback, and no resolver stays in the
\* queue unresolved.
C11_NoLostWakeup ==
    /\ [](CreationSucceeded =>
            /\ \A c \in Callers :
                  Called(c) => promise[c].state = "resolved" /\ promise[c].value = viteServer
            /\ \A i \in 1..Len(awaitingServer) : invoked[awaitingServer[i]] >= 1)
    /\ [][(~CreationSucceeded /\ CreationSucceeded') =>
            \A c \in Callers :
               promise[c].state = "pending" => promise'[c].state = "resolved"]_vars

\* C11 witness: the creation completed with three resolvers queued, two of
\* them queued while it was in flight; all are resolved.
C11_Witness ==
    /\ CreationSucceeded
    /\ Len(awaitingServer) >= 3
    /\ \A i \in 1..Len(awaitingServer) :
          promise[awaitingServer[i]].state = "resolved"
    /\ \E c1, c2 \in Callers :
          c1 # c2 /\ promise[c1].at = "pending" /\ promise[c2].at = "pending"

\* The place of caller c in the order of notification; 0 when not notified.
NotifiedAt(c) ==
    IF \E i \in 1..Len(notified) : notified[i] = c
    THEN CHOOSE i \in 1..Len(notified) : notified[i] = c
    ELSE 0

\* C12: on completion the queued callers are notified in FIFO order: of two
\* callers queued while the creation was in flight, the resolver of the one
\* that called getOrInitialize first is invoked first.
C12_FifoNotification ==
    CreationSucceeded =>
       \A c1, c2 \in Callers :
          ( /\ Count(awaitingServer, c1) > 0
            /\ Count(awaitingServer, c2) > 0
            /\ promise[c1].seq < promise[c2].seq ) =>
             /\ NotifiedAt(c1) > 0
             /\ NotifiedAt(c1) < NotifiedAt(c2)

\* C12 witness: three queued callers that called in the order 3, 1, 2 were
\* notified in that order.
C12_Witness ==
    /\ CreationSucceeded
    /\ notified = <<3, 1, 2>>
    /\ promise[3].seq = 1 /\ promise[1].seq = 2 /\ promise[2].seq = 3

\* C18: once the coordinator has cached a server instance it never changes
\* or clears it: in every later state the cached instance is the same, the
\* resolver queue no longer grows, and each queued resolver has been invoked
\* exactly once, never a second time by a later call.
C18_CachedInstanceIsStable ==
    /\ [](viteServer # NoServer =>
            \A i \in 1..Len(awaitingServer) : invoked[awaitingServer[i]] = 1)
    /\ [][viteServer # NoServer =>
            /\ viteServer' = viteServer
            /\ awaitingServer' = awaitingServer
            /\ invoked' = invoked]_vars

\* C18 witness: after the instance was cached, with two resolvers invoked
\* once each, two more calls were served from the cache.
C18_Witness ==
    /\ viteServer # NoServer
    /\ Len(awaitingServer) = 2
    /\ \A i \in 1..2 : invoked[awaitingServer[i]] = 1
    /\ Cardinality({c \in Callers : promise[c].at = "fulfilled"}) >= 2

--------------------------------------------------------------------------
(* productionBuild *)

\* The generated site has at most MaxPages *.html files and MaxAssets others.
MaxPages == 2
MaxAssets == 1

HtmlFiles == {"html"} \X (1..MaxPages)
AssetFiles == {"asset"} \X (1..MaxAssets)
Files == HtmlFiles \cup AssetFiles

Dir(kind, files) == [exists |-> TRUE, kind |-> kind, files |-> files]

\* Before the call: the generator wrote its tree to the output directory (or
\* the directory is missing), and the scratch path is free or holds a
\* directory left there earlier.
BuildInit ==
    /\ pc = "rename"
    /\ outputDir \in {Absent} \cup {Dir("generated", fs) : fs \in SUBSET Files}
    /\ tempDir \in {Absent} \cup {Dir("stale", fs) : fs \in SUBSET AssetFiles}
    /\ preOutput = outputDir
    /\ preTemp = tempDir
    /\ inputFiles = {}
    /\ bundlerInput = {}
    /\ error = "none"
    /\ steps = <<>>

\* fs.promises.rename(from, to) on directories can succeed when `from` exists
\* and `to` is free or an empty directory.
RenamePossible(from, to) == from.exists /\ (~to.exists \/ to.files = {})

\* globSync(`${dir}/**/*.html`)
globSync(dir) == {f \in dir.files : f[1] = "html"}

\* Entry files that the renderers' configuration fragments can name in
\* build.rollupOptions.input (renderer.viteConfig, line 192).  They lie
\* outside the generated tree.
RendererEntries == {<<"renderer", 1>>}

\* lines 33-49: build.rollupOptions.input of the configuration handed to
\* vite.build.  productionBuild sets it to the enumerated files (line 45);
\* mergeRendererConfigs (line 49) merges every renderer's fragment into the
\* configuration, and merging concatenates array-valued options, so the
\* entries a fragment names are added.  The fragments are taken not to
\* redirect root or build.outDir.
rollupInput(enumerated, rendererInput) == enumerated \cup rendererInput

\* A bug variant: the output tree is copied to the scratch directory.
Rename_Copy ==
    /\ UNCHANGED notBuild
    /\ pc = "rename"
    /\ \/ /\ RenamePossible(outputDir, tempDir)
          /\ tempDir' = outputDir
          /\ pc' = "glob"
          /\ steps' = Append(steps, "rename")
          /\ UNCHANGED <<outputDir, error>>
       \/ /\ error' = "rename"
          /\ pc' = "done"
          /\ steps' = Append(steps, "rename-failed")
          /\ UNCHANGED <<outputDir, tempDir>>
    /\ UNCHANGED <<preOutput, preTemp, inputFiles, bundlerInput>>

\* A bug variant: the rename is inside the try block, so its failure runs
\* the finally block.
Rename_InsideTry ==
    /\ UNCHANGED notBuild
    /\ pc = "rename"
    /\ \/ /\ RenamePossible(outputDir, tempDir)
          /\ tempDir' = outputDir
          /\ outputDir' = Absent
          /\ pc' = "glob"
          /\ steps' = Append(steps, "rename")
          /\ UNCHANGED error
       \/ /\ error' = "rename"
          /\ pc' = "finally"
          /\ steps' = Append(steps, "rename-failed")
          /\ UNCHANGED <<outputDir, tempDir>>
    /\ UNCHANGED <<preOutput, preTemp, inputFiles, bundlerInput>>

\* line 26: await fs.promises.rename(resolvedOutput, eleventyTempBuildDir).
\* It is outside the try block: a failure is raised to the caller as it is.
Rename ==
    /\ UNCHANGED notBuild
    /\ pc = "rename"
    /\ \/ /\ RenamePossible(outputDir, tempDir)
          /\ tempDir' = outputDir
          /\ outputDir' = Absent
          /\ pc' = "glob"
          /\ steps' = Append(steps, "rename")
          /\ UNCHANGED error
       \/ /\ error' = "rename"
          /\ pc' = "done"
          /\ steps' = Append(steps, "rename-failed")
          /\ UNCHANGED <<outputDir, tempDir>>
    /\ UNCHANGED <<preOutput, preTemp, inputFiles, bundlerInput>>

\* A bug variant: the empty-entry error leaves the function at once, as if
\* the throw were not inside try/finally.
Enumerate_NoFinally ==
    /\ UNCHANGED notBuild
    /\ pc = "glob"
    /\ inputFiles' = globSync(tempDir)
    /\ IF inputFiles' = {}
       THEN /\ error' = "empty"
            /\ pc' = "done"
            /\ steps' = Append(steps, "glob")
            /\ UNCHANGED bundlerInput
       ELSE /\ \E rendererInput \in SUBSET RendererEntries :
                  bundlerInput' = rollupInput(inputFiles', rendererInput)
            /\ pc' = "build"
            /\ steps' = steps \o <<"glob", "build">>
            /\ UNCHANGED error
    /\ UNCHANGED <<outputDir, tempDir, preOutput, preTemp>>

\* A bug variant: the check of line 32 is missing, the bundler is called
\* also when no entry was found.
Enumerate_NoEmptyCheck ==
    /\ UNCHANGED notBuild
    /\ pc = "glob"
    /\ inputFiles' = globSync(tempDir)
    /\ \E rendererInput \in SUBSET RendererEntries :
          bundlerInput' = rollupInput(inputFiles', rendererInput)
    /\ pc' = "build"
    /\ steps' = steps \o <<"glob", "build">>
    /\ UNCHANGED error
    /\ UNCHANGED <<outputDir, tempDir, preOutput, preTemp>>

\* lines 28-50, up to the await: enumerate the entries, throw when there are
\* none, else configure the bundler and call vite.build.
Enumerate ==
    /\ UNCHANGED notBuild
    /\ pc = "glob"
    /\ inputFiles' = globSync(tempDir)
    /\ IF inputFiles' = {}
       THEN \* line 32
            /\ error' = "empty"
            /\ pc' = "finally"
            /\ steps' = Append(steps, "glob")
            /\ UNCHANGED bundlerInput
       ELSE \* lines 33-50
            /\ \E rendererInput \in SUBSET RendererEntries :
                  bundlerInput' = rollupInput(inputFiles', rendererInput)
            /\ pc' = "build"
            /\ steps' = steps \o <<"glob", "build">>
            /\ UNCHANGED error
    /\ UNCHANGED <<outputDir, tempDir, preOutput, preTemp>>

\* A bug variant: the bundle is written below the bundler's root instead of
\* build.outDir.
BuildSucceeds_WritesToRoot ==
    /\ UNCHANGED notBuild
    /\ pc = "build"
    /\ tempDir' = Dir("bundled", bundlerInput)
    /\ pc' = "finally"
    /\ steps' = Append(steps, "build-ok")
    /\ UNCHANGED <<outputDir, preOutput, preTemp, inputFiles, bundlerInput, error>>

\* line 50: vite.build resolves, having written one page per entry to
\* build.outDir = resolvedOutput (emptyOutDir: true).
BuildSucceeds ==
    /\ UNCHANGED notBuild
    /\ pc = "build"
    /\ outputDir' = Dir("bundled", bundlerInput)
    /\ pc' = "finally"
    /\ steps' = Append(steps, "build-ok")
    /\ UNCHANGED <<tempDir, preOutput, preTemp, inputFiles, bundlerInput, error>>

\* line 50: vite.build rejects, before it wrote anything or part-way through
\* writing.
BuildFails ==
    /\ UNCHANGED notBuild
    /\ pc = "build"
    /\ outputDir' \in {outputDir} \cup
          {Dir("partial", fs) : fs \in (SUBSET bundlerInput) \ {bundlerInput}}
    /\ error' = "bundler"
    /\ pc' = "finally"
    /\ steps' = Append(steps, "build-failed")
    /\ UNCHANGED <<tempDir, preOutput, preTemp, inputFiles, bundlerInput>>

\* A bug variant: an error of the removal is swallowed when the try block
\* already raised one.
Cleanup_KeepsFirstError ==
    /\ UNCHANGED notBuild
    /\ pc = "finally"
    /\ \/ /\ tempDir' = Absent
          /\ steps' = Append(steps, "rm")
          /\ UNCHANGED error
       \/ /\ tempDir' \in {Dir(tempDir.kind, fs) : fs \in SUBSET tempDir.files}
          /\ error' = IF error = "none" THEN "rm" ELSE error
          /\ steps' = Append(steps, "rm-failed")
    /\ pc' = "done"
    /\ UNCHANGED <<outputDir, preOutput, preTemp, inputFiles, bundlerInput>>

\* lines 51-55: the finally block removes the scratch directory, then the
\* function completes as the try block did; an error of the removal itself
\* replaces that completion.
Cleanup ==
    /\ UNCHANGED notBuild
    /\ pc = "finally"
    /\ \/ /\ tempDir' = Absent
          /\ steps' = Append(steps, "rm")
          /\ UNCHANGED error
       \/ /\ tempDir' \in {Dir(tempDir.kind, fs) : fs \in SUBSET tempDir.files}
          /\ error' = "rm"
          /\ steps' = Append(steps, "rm-failed")
    /\ pc' = "done"
    /\ UNCHANGED <<outputDir, preOutput, preTemp, inputFiles, bundlerInput>>

BuildNext ==
    \/ Rename
    \/ Enumerate
    \/ BuildSucceeds
    \/ BuildFails
    \/ Cleanup

InitBuild == ServerInit /\ BuildInit /\ PropsIdle /\ HeadIdle /\ MergeIdle

SpecBuild == InitBuild /\ [][BuildNext]_vars

--------------------------------------------------------------------------
(* Properties of productionBuild *)

\* productionBuild returned or raised.
Finished == pc = "done"

\* What the call ended with: "none" when it returned, else the error raised.
Outcome == error

\* C3: for the build outcomes success, empty-entry failure and bundler
\* failure, the scratch directory does not exist after productionBuild
\* returned or raised.
C3_ScratchRemoved ==
    (Finished /\ Outcome \in {"none", "empty", "bundler"}) => ~tempDir.exists

\* C3 witness: the build raised the bundler's error and the scratch directory,
\* which held the generated tree, is gone.
C3_Witness ==
    /\ Finished /\ Outcome = "bundler"
    /\ preOutput.files # {}
    /\ ~tempDir.exists

\* C4 as stated: once productionBuild has finished, the output directory is
\* in its pre-build state or holds the complete fresh bundle, and the scratch
\* directory does not exist.  It is taken here in its most favourable reading:
\* for the calls in which no file-system operation (rename, rm) failed and
\* the output directory held files before the call.
C4_Original ==
    (Finished /\ Outcome \in {"none", "empty", "bundler"} /\ preOutput.files # {}) =>
       /\ \/ outputDir = preOutput
          \/ outputDir = Dir("bundled", bundlerInput)
       /\ ~tempDir.exists

\* C4 amended: once productionBuild has finished,
\*   - if it returned, the output directory holds the complete fresh bundle;
\*   - if the initial rename failed, the output and scratch directories are as
\*     they were before the call;
\*   - if it raised the empty-entry error, the output directory is absent;
\*   - if it raised the bundler's error, the output directory is absent or
\*     partially written;
\*   in none of the last two cases does it hold the pre-build content; and the
\*   scratch directory does not exist unless the rename or the removal failed.
C4_FinalStates ==
    Finished =>
       /\ Outcome = "none" =>
             /\ outputDir = Dir("bundled", bundlerInput)
             /\ globSync(preOutput) \subseteq bundlerInput
             /\ ~tempDir.exists
       /\ Outcome = "rename" =>
             outputDir = preOutput /\ tempDir = preTemp
       /\ Outcome = "empty" =>
             outputDir = Absent /\ ~tempDir.exists
       /\ Outcome = "bundler" =>
             /\ ~outputDir.exists \/ outputDir.kind = "partial"
             /\ ~tempDir.exists
       /\ Outcome = "rm" =>
             /\ tempDir.exists
             /\ outputDir.kind \in {"none", "partial", "bundled"}
       /\ Outcome \in {"none", "rename", "empty", "bundler", "rm"}

\* C4 witness: the build raised the empty-entry error; the output directory,
\* which held files before, is absent.
C4_Witness ==
    /\ Finished /\ Outcome = "empty"
    /\ preOutput.exists /\ preOutput.files # {}
    /\ outputDir = Absent

\* C5: after productionBuild raised the empty-entry error the output
\* directory no longer holds the prior content: the rename moved it to the
\* scratch directory, the cleanup deleted it, nothing wrote it back.
C5_EmptyEntryLosesOutput ==
    (Finished /\ Outcome = "empty") =>
       /\ preOutput.exists
       /\ ~outputDir.exists
       /\ ~tempDir.exists
       /\ steps = <<"rename", "glob", "rm">>

\* C5 witness: an output directory with asset files only was lost.
C5_Witness ==
    /\ Finished /\ Outcome = "empty"
    /\ preOutput.files # {} /\ globSync(preOutput) = {}
    /\ ~outputDir.exists /\ ~tempDir.exists

\* The positions of a step in the record of the call.
StepsAt(name) == {i \in 1..Len(steps) : steps[i] = name}

BundlerInvoked == StepsAt("build") # {}

\* The order of the steps of one call: the enumeration follows the completed
\* rename, the bundler is invoked right after the enumeration and only when
\* it found an entry, and the removal is the last step, after the bundler
\* has finished or failed.
StepOrder ==
    /\ \A i \in StepsAt("glob") : i = 2 /\ steps[1] = "rename"
    /\ \A i \in StepsAt("build") :
          /\ i = 3 /\ steps[1] = "rename" /\ steps[2] = "glob"
          /\ inputFiles # {}
          /\ inputFiles = globSync(preOutput)
    /\ (2 \in StepsAt("glob") /\ inputFiles = {}) => ~BundlerInvoked
    /\ \A i \in StepsAt("rm") \cup StepsAt("rm-failed") :
          /\ i = Len(steps)
          /\ steps[1] = "rename" /\ steps[2] = "glob"
          /\ i = IF BundlerInvoked THEN 5 ELSE 3
          /\ BundlerInvoked => steps[4] \in {"build-ok", "build-failed"}
    /\ pc = "finally" =>
          IF BundlerInvoked THEN Len(steps) = 4 ELSE steps = <<"rename", "glob">>

\* C13 as stated: the steps of one productionBuild call happen in the order
\* rename, enumerate, bundler build, remove; the bundler is invoked only
\* after the rename and only when an entry was found, the removal starts
\* only after the bundler has finished or failed, and the bundler receives
\* exactly the enumerated files as entries.
C13_Original ==
    /\ StepOrder
    /\ BundlerInvoked => bundlerInput = inputFiles

\* C13 amended: the same order of steps; the entries the bundler receives
\* are the enumerated files together with the entries that the renderers'
\* configuration fragments name, and nothing else.
C13_StepOrderAndEntries ==
    /\ StepOrder
    /\ BundlerInvoked =>
          /\ inputFiles \subseteq bundlerInput
          /\ bundlerInput \ inputFiles \subseteq RendererEntries
    /\ ~BundlerInvoked => bundlerInput = {}

\* C13 witness: a call went through all four steps; the bundler was given
\* both generated pages and a renderer's entry, failed, and the scratch
\* directory was removed afterwards.
C13_Witness ==
    /\ Finished
    /\ steps = <<"rename", "glob", "build", "build-failed", "rm">>
    /\ Cardinality(inputFiles) = 2
    /\ bundlerInput \ inputFiles # {}

\* The error the try block (lines 27-50) completed with, read off the record
\* of the call: the bundler's, the empty-entry check's, or none.
TryError ==
    IF StepsAt("build-failed") # {} THEN "bundler"
    ELSE IF StepsAt("glob") # {} /\ ~BundlerInvoked THEN "empty"
    ELSE "none"

RemovalRan == StepsAt("rm") \cup StepsAt("rm-failed") # {}

\* C14 as stated: an error of the empty-entry check or of the bundler is the
\* error productionBuild raises, and it is raised after the removal of the
\* scratch directory has completed, also when the removal itself fails.
C14_Original ==
    (Finished /\ TryError # "none") =>
       /\ Outcome = TryError
       /\ RemovalRan

\* C14 amended: an error of the empty-entry check or of the bundler is
\* raised only after the removal ran; it is the error productionBuild raises
\* when the removal succeeded, and the scratch directory is gone then.  When
\* the removal itself failed, productionBuild raises the removal's error and
\* the error of the try block is lost.
C14_ErrorAfterCleanup ==
    /\ (Finished /\ TryError # "none") =>
          /\ RemovalRan
          /\ steps[Len(steps)] = "rm" => Outcome = TryError /\ ~tempDir.exists
          /\ steps[Len(steps)] = "rm-failed" => Outcome = "rm"
    /\ (~Finished /\ TryError # "none") => pc = "finally" /\ ~RemovalRan
    /\ pc = "finally" => error = TryError

\* C14 witness: the bundler failed, then the removal failed; the call raised
\* the removal's error.
C14_Witness ==
    /\ Finished
    /\ steps = <<"rename", "glob", "build", "build-failed", "rm-failed">>
    /\ Outcome = "rm"
    /\ tempDir.exists

\* C19: when the initial rename fails, productionBuild raises that error and
\* does nothing else: no enumeration, no bundler call, no removal; the
\* output directory and the scratch directory are as they were before the
\* call, so a scratch directory that existed still exists.
C19_RenameFailureLeavesAllAsIs ==
    (StepsAt("rename-failed") # {} \/ error = "rename") =>
       /\ Finished /\ Outcome = "rename"
       /\ steps = <<"rename-failed">>
       /\ inputFiles = {} /\ bundlerInput = {}
       /\ outputDir = preOutput
       /\ tempDir = preTemp

\* C19 witness: the rename failed because the scratch path held a non-empty
\* directory; that directory and the generated output are still there.
C19_Witness ==
    /\ Finished /\ Outcome = "rename"
    /\ preOutput.exists /\ preOutput.files # {}
    /\ preTemp.exists /\ preTemp.files # {}
    /\ tempDir = preTemp /\ outputDir = preOutput

--------------------------------------------------------------------------
(* slinkityPropsPlugin *)

\* A page declares at most MaxProps props.
MaxProps == 2

\* Text (ids, paths, module source) is the sequence of its pieces; a piece is
\* a literal of the source, a prop's id, name or serialized value, or other
\* text without structure.

\* line 102
virtualModuleId == <<"slinkity:props:">>

\* line 103: "\0" + virtualModuleId
resolvedVirtualModuleId == <<"<NUL>">> \o virtualModuleId

\* The contents of ./utils/store.client.mjs (line 146).
StoreClientMjs == <<"import { atom } from 'nanostores';\n", "export const store = atom();\n">>

PropIdList == <<"a", "b", "c", "d">>
PropNameList == <<"title", "count", "items", "date">>
PropValueList == <<"\"Hi\"", "42", "[1, 2]", "new Date(0)">>

PropIndexes == 1..MaxProps

\* props[id]: the record the render pass stored for a prop.
Prop(i) == [id |-> PropIdList[i], name |-> PropNameList[i],
            value |-> PropValueList[i]]

Range(f) == {f[i] : i \in DOMAIN f}

\* The sequences without repetition over S: the iteration orders of a Set,
\* or the key orders of an object.
OrderedSubsets(S) ==
    {q \in UNION {[1..n -> S] : n \in 0..Cardinality(S)} :
        \A i, j \in DOMAIN q : i # j => q[i] # q[j]}

\* The PageProps entries: props in the object's key order, clientPropIds in
\* the Set's insertion order, every client prop id a key of props.
PagePropsEntries ==
    UNION {
      {[hasStore |-> h,
        props |-> [i \in DOMAIN ks |-> Prop(ks[i])],
        clientPropIds |-> [i \in DOMAIN cs |-> PropIdList[cs[i]]]] :
          h \in BOOLEAN, cs \in OrderedSubsets(Range(ks))} :
      ks \in OrderedSubsets(PropIndexes)}

\* An entry of a page other than the one under study.
OtherEntry ==
    [hasStore |-> FALSE,
     props |-> <<[id |-> "z", name |-> "other", value |-> "null"]>>,
     clientPropIds |-> <<"z">>]

\* Input paths; two of them contain the text of the virtual-module prefix.
PagePaths ==
    { <<"/index.md">>,
      <<"/docs/">> \o virtualModuleId \o <<"x.md">>,
      virtualModuleId \o <<"/y.md">> }

\* propsByInputPath as the render pass may have left it.
PropsMaps ==
    {<<>>}
    \cup {(p :> e) : p \in PagePaths, e \in PagePropsEntries}
    \cup UNION {{(p :> e) @@ (q :> OtherEntry) : q \in PagePaths \ {p}} :
                   p \in PagePaths, e \in PagePropsEntries}

\* The ids the bundler may hand to the hooks.
RequestIds ==
    {virtualModuleId \o p : p \in PagePaths}
    \cup {resolvedVirtualModuleId \o p : p \in PagePaths}
    \cup PagePaths

PropsInit ==
    /\ propsByInputPath \in PropsMaps
    /\ propsReq = NoId
    /\ propsResolved = NoId
    /\ propsLoaded = NotLoaded

\* String.prototype.startsWith
startsWith(str, prefix) ==
    /\ Len(str) >= Len(prefix)
    /\ SubSeq(str, 1, Len(prefix)) = prefix

\* String.prototype.indexOf, 1-based; 0 when there is no occurrence.
indexOf(str, pat) ==
    LET hits == {i \in 1..(Len(str) - Len(pat) + 1) :
                    SubSeq(str, i, i + Len(pat) - 1) = pat}
    IN  IF hits = {} THEN 0 ELSE CHOOSE i \in hits : \A j \in hits : i <= j

\* String.prototype.replace with a string pattern: the first occurrence only.
replace(str, pat, by) ==
    LET i == indexOf(str, pat)
    IN  IF i = 0 THEN str
        ELSE SubSeq(str, 1, i - 1) \o by \o SubSeq(str, i + Len(pat), Len(str))

\* JSON.stringify of a string that needs no escaping: the string in quotes.
JSONstringify(str) == <<"\"", str, "\"">>

\* props[clientPropId]
PropOf(props, clientPropId) ==
    CHOOSE r \in Range(props) : r.id = clientPropId

\* lines 135-140: the text one iteration of the loop appends.
EntryLine(props, clientPropId) ==
    LET prop == PropOf(props, clientPropId)
        serializedKey == JSONstringify(clientPropId)
        serializedEntry == <<"{ name: ">> \o JSONstringify(prop.name)
                              \o <<", value: ", prop.value, " }">>
    IN  <<"  ">> \o serializedKey \o <<": ">> \o serializedEntry \o <<",\n">>

\* lines 134-141: the loop over clientPropIds.
RECURSIVE EntryLines(_, _)
EntryLines(props, ids) ==
    IF ids = <<>> THEN <<>>
    ELSE EntryLine(props, Head(ids)) \o EntryLines(props, Tail(ids))

\* A bug variant: the entries are emitted in the key order of props.
getPropsModContents_KeyOrder(inputPath, byInputPath) ==
    IF inputPath \in DOMAIN byInputPath
       /\ Len(byInputPath[inputPath].clientPropIds) > 0
    THEN LET propInfo == byInputPath[inputPath]
             keys == [i \in DOMAIN propInfo.props |-> propInfo.props[i].id]
             inKeyOrder == SelectSeq(keys,
                              LAMBDA k : k \in Range(propInfo.clientPropIds))
         IN  <<"export default {\n">>
             \o EntryLines(propInfo.props, inKeyOrder)
             \o <<"}">>
             \o (IF propInfo.hasStore THEN <<"\n">> \o StoreClientMjs ELSE <<>>)
    ELSE <<"export default {\n">>

\* lines 125-151
getPropsModContents(inputPath, byInputPath) ==
    IF inputPath \in DOMAIN byInputPath
       /\ Len(byInputPath[inputPath].clientPropIds) > 0
    THEN \* lines 133-147
         LET propInfo == byInputPath[inputPath]
         IN  <<"export default {\n">>
             \o EntryLines(propInfo.props, propInfo.clientPropIds)
             \o <<"}">>
             \o (IF propInfo.hasStore THEN <<"\n">> \o StoreClientMjs ELSE <<>>)
    ELSE \* line 130 alone
         <<"export default {\n">>

\* String.prototype.replaceAll with a string pattern.
RECURSIVE replaceAll(_, _, _)
replaceAll(str, pat, by) ==
    LET i == indexOf(str, pat)
    IN  IF i = 0 THEN str
        ELSE SubSeq(str, 1, i - 1) \o by
             \o replaceAll(SubSeq(str, i + Len(pat), Len(str)), pat, by)

\* A bug variant: every occurrence of the prefix is rewritten, not the
\* leading one alone.
resolveId_ReplaceAll(id) ==
    IF startsWith(id, virtualModuleId)
    THEN replaceAll(id, virtualModuleId, resolvedVirtualModuleId)
    ELSE NoId

\* lines 107-111
resolveId(id) ==
    IF startsWith(id, virtualModuleId)
    THEN replace(id, virtualModuleId, resolvedVirtualModuleId)
    ELSE NoId

\* lines 112-121: the call load(id) and what it returned.
load(id) ==
    IF startsWith(id, resolvedVirtualModuleId)
    THEN LET inputPath == replace(id, resolvedVirtualModuleId, <<>>)
         IN  [id |-> id, declined |-> FALSE, inputPath |-> inputPath,
              code |-> getPropsModContents(inputPath, propsByInputPath)]
    ELSE [id |-> id, declined |-> TRUE, inputPath |-> NoId, code |-> <<>>]

\* The bundler asks the plugin to resolve an id.
ResolveId(id) ==
    /\ UNCHANGED notProps
    /\ propsReq' = id
    /\ propsResolved' = resolveId(id)
    /\ UNCHANGED <<propsByInputPath, propsLoaded>>

\* The bundler asks the plugin to load the id resolveId returned.
LoadResolved ==
    /\ UNCHANGED notProps
    /\ propsResolved # NoId
    /\ propsLoaded' = load(propsResolved)
    /\ UNCHANGED <<propsByInputPath, propsReq, propsResolved>>

\* The bundler asks the plugin to load an id some other resolver produced.
LoadOther(id) ==
    /\ UNCHANGED notProps
    /\ propsLoaded' = load(id)
    /\ UNCHANGED <<propsByInputPath, propsReq, propsResolved>>

PropsNext ==
    \/ \E id \in RequestIds : ResolveId(id)
    \/ LoadResolved
    \/ \E id \in RequestIds : LoadOther(id)

InitProps == ServerInit /\ BuildIdle /\ PropsInit /\ HeadIdle /\ MergeIdle

SpecProps == InitProps /\ [][PropsNext]_vars

--------------------------------------------------------------------------
(* Properties of slinkityPropsPlugin *)

\* load returned the module of a page that has a PageProps entry.
LoadedPage ==
    /\ ~propsLoaded.declined
    /\ propsLoaded.inputPath \in DOMAIN propsByInputPath

LoadedEntry == propsByInputPath[propsLoaded.inputPath]

endsWith(str, suffix) ==
    /\ Len(str) >= Len(suffix)
    /\ SubSeq(str, Len(str) - Len(suffix) + 1, Len(str)) = suffix

\* The lines of a text that end in ",\n", in order.
RECURSIVE LinesOf(_)
LinesOf(text) ==
    LET i == indexOf(text, <<",\n">>)
    IN  IF i = 0 THEN <<>>
        ELSE <<SubSeq(text, 1, i)>> \o LinesOf(SubSeq(text, i + 1, Len(text)))

\* C7: for every PageProps entry, the module load returns ends with the
\* helper asset's exact contents, appended after the export object, when
\* hasStore is true, and does not contain the helper asset when hasStore is
\* false; for every clientPropIds set, the empty one included.
C7_StoreAppendedIffHasStore ==
    LoadedPage =>
       IF LoadedEntry.hasStore
       THEN endsWith(propsLoaded.code, <<"}", "\n">> \o StoreClientMjs)
       ELSE indexOf(propsLoaded.code, StoreClientMjs) = 0

\* C8: for a PageProps entry with a non-empty clientPropIds the module has
\* exactly one entry per client prop id, in the insertion order of
\* clientPropIds, keyed by the id and carrying that id's name and the text of
\* its getSerializedValue.
C8_EntriesInInsertionOrder ==
    (LoadedPage /\ Len(LoadedEntry.clientPropIds) > 0) =>
       LET ids == LoadedEntry.clientPropIds
           lines == LinesOf(Tail(propsLoaded.code))
       IN  /\ Head(propsLoaded.code) = "export default {\n"
           /\ Len(lines) = Len(ids)
           /\ \A k \in 1..Len(ids) :
                \E r \in Range(LoadedEntry.props) :
                   /\ r.id = ids[k]
                   /\ lines[k] = <<"  ", "\"", ids[k], "\"", ": ", "{ name: ",
                                   "\"", r.name, "\"", ", value: ", r.value,
                                   " }", ",\n">>

\* C8 witness: a module was loaded, through resolveId, for a page whose
\* clientPropIds order (b, a) is not the key order of props (a, b).
C8_Witness ==
    /\ LoadedPage
    /\ propsResolved = resolvedVirtualModuleId \o propsLoaded.inputPath
    /\ LoadedEntry.clientPropIds = <<"b", "a">>
    /\ LoadedEntry.props[1].id = "a"
    /\ LinesOf(Tail(propsLoaded.code))[1][3] = "b"

\* C15: for an input path without a PageProps entry, and for an entry with
\* no client prop id, load returns a complete empty default export: the
\* object that "export default {" opens is closed.
C15_EmptyExportClosed ==
    (/\ ~propsLoaded.declined
     /\ \/ propsLoaded.inputPath \notin DOMAIN propsByInputPath
        \/ Len(LoadedEntry.clientPropIds) = 0) =>
       /\ Len(propsLoaded.code) >= 2
       /\ propsLoaded.code[1] = "export default {\n"
       /\ propsLoaded.code[2] = "}"

\* The text of id after a prefix it starts with.
After(id, prefix) == SubSeq(id, Len(prefix) + 1, Len(id))

\* C17: resolveId declines every id that does not start with the public
\* prefix and answers the others with the marker put in front; load declines
\* every id that does not start with the marker prefix and answers the
\* others for the input path that follows the marker; so load of what
\* resolveId returned for prefix + p generates the module from the PageProps
\* entry of exactly p, also when p contains the text of the prefix.
C17_RoundTrip ==
    /\ propsReq # NoId =>
          IF startsWith(propsReq, virtualModuleId)
          THEN propsResolved = <<"<NUL>">> \o propsReq
          ELSE propsResolved = NoId
    /\ propsLoaded.id # NoId =>
          IF startsWith(propsLoaded.id, resolvedVirtualModuleId)
          THEN /\ ~propsLoaded.declined
               /\ propsLoaded.inputPath =
                     After(propsLoaded.id, resolvedVirtualModuleId)
          ELSE propsLoaded.declined /\ propsLoaded.code = <<>>
    /\ \A p \in PagePaths :
          (propsReq = virtualModuleId \o p /\ propsLoaded.id = propsResolved) =>
             /\ ~propsLoaded.declined
             /\ propsLoaded.inputPath = p
             /\ propsLoaded.code = getPropsModContents(p, propsByInputPath)

\* C17 witness: the module of a page whose path contains the prefix text was
\* resolved and loaded, with another page's entry in the map; and it is the
\* module of that page's entry.
C17_Witness ==
    LET p == <<"/docs/">> \o virtualModuleId \o <<"x.md">>
    IN  /\ propsReq = virtualModuleId \o p
        /\ propsLoaded.id = propsResolved
        /\ propsLoaded.inputPath = p
        /\ Cardinality(DOMAIN propsByInputPath) = 2
        /\ p \in DOMAIN propsByInputPath
        /\ propsByInputPath[p].clientPropIds = <<"a">>
        /\ LinesOf(Tail(propsLoaded.code))[1][3] = "a"

--------------------------------------------------------------------------
(* slinkityInjectHeadPlugin *)

\* A page has collected at most MaxCssUrls stylesheet URLs.
MaxCssUrls == 2

CssUrlList == <<"/blog/post/index.css", "/main.css", "/theme.css">>
CssUrls == {CssUrlList[i] : i \in 1..MaxCssUrls}

\* The keys of cssUrlsByInputPath; in dev mode the request URL is the key.
InputPathKeys == {"/blog/post/", "/about/"}

\* The output files the render pass recorded in pageByRelOutputPath.
RenderedOutputPaths == {"blog/post/index.html", "about/index.html"}

\* The output files the bundler may transform.
OutputPaths == RenderedOutputPaths \cup {"404.html"}

\* The maps from a subset of keys to values.
PartialMaps(keys, values) == UNION {[D -> values] : D \in SUBSET keys}

\* ctx.originalUrl: "" stands for a missing one (both are falsy, line 162).
OriginalUrls == {""} \cup InputPathKeys

HeadInit ==
    /\ pageByRelOutputPath \in
          PartialMaps(RenderedOutputPaths, [inputPath : InputPathKeys])
    /\ cssUrlsByInputPath \in PartialMaps(InputPathKeys, OrderedSubsets(CssUrls))
    /\ headCtx = [originalUrl |-> "", path |-> ""]
    /\ headTags = <<>>
    /\ headReads = <<>>

\* A bug variant: the descriptors come out in the reverse of the Set's
\* iteration order.
LinkTags_Reversed(collectedCss) ==
    [i \in DOMAIN collectedCss |->
        [tag |-> "link",
         attrs |-> [rel |-> "stylesheet",
                    href |-> collectedCss[Len(collectedCss) + 1 - i]]]]

\* line 175-178: one link descriptor per URL, in the Set's iteration order.
LinkTags(collectedCss) ==
    [i \in DOMAIN collectedCss |->
        [tag |-> "link", attrs |-> [rel |-> "stylesheet", href |-> collectedCss[i]]]]

\* lines 172-178, for a resolved inputPath.
InjectFor(inputPath, reads) ==
    IF inputPath \notin DOMAIN cssUrlsByInputPath
    THEN [tags |-> <<>>, reads |-> Append(reads, "cssUrlsByInputPath")]
    ELSE [tags |-> LinkTags(cssUrlsByInputPath[inputPath]),
          reads |-> Append(reads, "cssUrlsByInputPath")]

\* A bug variant: the output path is looked up first, the request URL is
\* the fallback.
transform_OutputPathFirst(ctx) ==
    IF ctx.path \in DOMAIN pageByRelOutputPath
    THEN InjectFor(pageByRelOutputPath[ctx.path].inputPath, <<"pageByRelOutputPath">>)
    ELSE IF ctx.originalUrl # ""
    THEN InjectFor(ctx.originalUrl, <<"pageByRelOutputPath">>)
    ELSE [tags |-> <<>>, reads |-> <<"pageByRelOutputPath">>]

\* lines 160-179: the tags returned and the maps read, in order.
transform(ctx) ==
    IF ctx.originalUrl # ""
    THEN \* line 164, dev server flow
         InjectFor(ctx.originalUrl, <<>>)
    ELSE \* lines 167-168, production build flow
         IF ctx.path \in DOMAIN pageByRelOutputPath
         THEN InjectFor(pageByRelOutputPath[ctx.path].inputPath,
                        <<"pageByRelOutputPath">>)
         ELSE \* line 170
              [tags |-> <<>>, reads |-> <<"pageByRelOutputPath">>]

\* The bundler runs the hook on a page.
Transform(ctx) ==
    /\ UNCHANGED notHead
    /\ headCtx' = ctx
    /\ headTags' = transform(ctx).tags
    /\ headReads' = transform(ctx).reads
    /\ UNCHANGED <<pageByRelOutputPath, cssUrlsByInputPath>>

HeadNext ==
    \E ctx \in [originalUrl : OriginalUrls, path : OutputPaths] : Transform(ctx)

InitHead == ServerInit /\ BuildIdle /\ PropsIdle /\ HeadInit /\ MergeIdle

SpecHead == InitHead /\ [][HeadNext]_vars

--------------------------------------------------------------------------
(* Properties of slinkityInjectHeadPlugin *)

\* transform has been called.
Transformed == headCtx.path # ""

\* One link tag per stylesheet URL collected for an input path.
LinksOf(inputPath) ==
    IF inputPath \in DOMAIN cssUrlsByInputPath
    THEN [i \in DOMAIN cssUrlsByInputPath[inputPath] |->
            [tag |-> "link",
             attrs |-> [rel |-> "stylesheet",
                        href |-> cssUrlsByInputPath[inputPath][i]]]]
    ELSE <<>>

BlogPostLink ==
    <<[tag |-> "link",
       attrs |-> [rel |-> "stylesheet", href |-> "/blog/post/index.css"]]>>

\* C9: the page is resolved in this order: with an original request URL in
\* the context that value is the input-path key and PageByOutputPath is not
\* consulted; otherwise ctx.path is looked up in PageByOutputPath and its
\* inputPath is used; without an entry for ctx.path nothing is emitted.  With
\* CssUrls['/blog/post/'] = {'/blog/post/index.css'}, the URL '/blog/post/'
\* and the path 'blog/post/index.html' mapped to '/blog/post/' give the same
\* single link tag.
C9_ResolutionOrder ==
    Transformed =>
       /\ headCtx.originalUrl # "" =>
             /\ headTags = LinksOf(headCtx.originalUrl)
             /\ "pageByRelOutputPath" \notin Range(headReads)
       /\ (headCtx.originalUrl = "" /\ headCtx.path \in DOMAIN pageByRelOutputPath) =>
             headTags = LinksOf(pageByRelOutputPath[headCtx.path].inputPath)
       /\ (headCtx.originalUrl = "" /\ headCtx.path \notin DOMAIN pageByRelOutputPath) =>
             headTags = <<>>
       /\ ( /\ "/blog/post/" \in DOMAIN cssUrlsByInputPath
            /\ cssUrlsByInputPath["/blog/post/"] = <<"/blog/post/index.css">>
            /\ \/ headCtx.originalUrl = "/blog/post/"
               \/ /\ headCtx.originalUrl = ""
                  /\ headCtx.path = "blog/post/index.html"
                  /\ headCtx.path \in DOMAIN pageByRelOutputPath
                  /\ pageByRelOutputPath[headCtx.path].inputPath = "/blog/post/" ) =>
             headTags = BlogPostLink

\* C9 witness: a dev-mode call for '/blog/post/' on an output path that
\* PageByOutputPath maps to another page, with other stylesheets, returned
\* the link of '/blog/post/'.
C9_Witness ==
    /\ Transformed
    /\ headCtx = [originalUrl |-> "/blog/post/", path |-> "about/index.html"]
    /\ "about/index.html" \in DOMAIN pageByRelOutputPath
    /\ pageByRelOutputPath["about/index.html"].inputPath = "/about/"
    /\ "/about/" \in DOMAIN cssUrlsByInputPath
    /\ cssUrlsByInputPath["/about/"] = <<"/main.css">>
    /\ "/blog/post/" \in DOMAIN cssUrlsByInputPath
    /\ cssUrlsByInputPath["/blog/post/"] = <<"/blog/post/index.css">>
    /\ headTags = BlogPostLink

\* The input path the last call resolved, "" when it resolved none.
ResolvedInputPath ==
    IF headCtx.originalUrl # "" THEN headCtx.originalUrl
    ELSE IF headCtx.path \in DOMAIN pageByRelOutputPath
    THEN pageByRelOutputPath[headCtx.path].inputPath
    ELSE ""

\* The href attributes of the tags returned, in order.
Hrefs == [i \in DOMAIN headTags |-> headTags[i].attrs.href]

\* C16: for an input path with a non-empty CssUrls set the transform returns
\* exactly one descriptor {tag: link, rel: stylesheet, href} per URL of the
\* set, in the set's iteration order, no URL repeated or dropped; with the
\* set absent or empty, or no input path resolved, it returns the empty
\* list.  It returns a list in every case.
C16_OneLinkPerUrl ==
    Transformed =>
       /\ headTags \in Seq([tag : {"link"},
                            attrs : [rel : {"stylesheet"}, href : CssUrls]])
       /\ IF /\ ResolvedInputPath \in DOMAIN cssUrlsByInputPath
             /\ cssUrlsByInputPath[ResolvedInputPath] # <<>>
          THEN /\ Hrefs = cssUrlsByInputPath[ResolvedInputPath]
               /\ \A i, j \in DOMAIN Hrefs : i # j => Hrefs[i] # Hrefs[j]
               /\ Len(headTags) =
                     Cardinality(Range(cssUrlsByInputPath[ResolvedInputPath]))
          ELSE headTags = <<>>

\* C16 witness: a production-build call for 'about/index.html', whose page
\* collected '/main.css' and then '/blog/post/index.css', returned the two
\* links in that order.
C16_Witness ==
    /\ Transformed
    /\ headCtx = [originalUrl |-> "", path |-> "about/index.html"]
    /\ ResolvedInputPath = "/about/"
    /\ "/about/" \in DOMAIN cssUrlsByInputPath
    /\ cssUrlsByInputPath["/about/"] = <<"/main.css", "/blog/post/index.css">>
    /\ Hrefs = <<"/main.css", "/blog/post/index.css">>

--------------------------------------------------------------------------
(* mergeRendererConfigs *)

\* userConfig.renderers has at most MaxRenderers renderers.
MaxRenderers == 2

\* A bundler configuration: an array-valued key and a scalar key.  A key that
\* is not set has the empty array or "<undefined>".
BaseConfigs ==
    [plugins : {<<"P">>, <<"slinkity-props-plugin", "vite-plugin-slinkity-inject-head">>},
     mode : {"<undefined>", "production"}]

Fragments ==
    [plugins : {<<>>, <<"Q">>, <<"R">>}, mode : {"<undefined>", "development"}]

\* A renderer, with or without a viteConfig.
Renderers ==
    [hasViteConfig : {TRUE}, viteConfig : Fragments]
    \cup {[hasViteConfig |-> FALSE, viteConfig |-> NoConfig]}

UserConfigs ==
    {[hasRenderers |-> FALSE, renderers |-> <<>>]}
    \cup {[hasRenderers |-> TRUE, renderers |-> rs] :
             rs \in UNION {[1..n -> Renderers] : n \in 0..MaxRenderers}}

MergeInit ==
    /\ baseConfig \in BaseConfigs
    /\ userConfig \in UserConfigs
    /\ mergedConfig = [returned |-> FALSE, config |-> NoConfig]

\* vite.mergeConfig(defaults, overrides): arrays concatenate, a later scalar
\* overrides an earlier one, a key that is not set changes nothing.
mergeConfig(defaults, overrides) ==
    [plugins |-> defaults.plugins \o overrides.plugins,
     mode |-> IF overrides.mode # "<undefined>" THEN overrides.mode
              ELSE defaults.mode]

\* renderer.viteConfig ?? {}
FragmentOf(renderer) ==
    IF renderer.hasViteConfig THEN renderer.viteConfig ELSE NoConfig

\* lines 191-193: the loop over the renderers.
RECURSIVE MergeLoop(_, _)
MergeLoop(viteConfig, renderers) ==
    IF renderers = <<>> THEN viteConfig
    ELSE MergeLoop(mergeConfig(viteConfig, FragmentOf(Head(renderers))),
                   Tail(renderers))

\* A bug variant: the accumulator is merged onto the fragment.
RECURSIVE MergeLoop_Swapped(_, _)
MergeLoop_Swapped(viteConfig, renderers) ==
    IF renderers = <<>> THEN viteConfig
    ELSE MergeLoop_Swapped(mergeConfig(FragmentOf(Head(renderers)), viteConfig),
                           Tail(renderers))

mergeRendererConfigs_Swapped(viteConfig, config) ==
    MergeLoop_Swapped(viteConfig,
                      IF config.hasRenderers THEN config.renderers ELSE <<>>)

\* lines 184-195; userConfig?.renderers ?? []
mergeRendererConfigs(viteConfig, config) ==
    MergeLoop(viteConfig, IF config.hasRenderers THEN config.renderers ELSE <<>>)

MergeRendererConfigs ==
    /\ UNCHANGED notMerge
    /\ ~mergedConfig.returned
    /\ mergedConfig' = [returned |-> TRUE,
                        config |-> mergeRendererConfigs(baseConfig, userConfig)]
    /\ UNCHANGED <<baseConfig, userConfig>>

MergeNext == MergeRendererConfigs

InitMerge == ServerInit /\ BuildIdle /\ PropsIdle /\ HeadIdle /\ MergeInit

SpecMerge == InitMerge /\ [][MergeNext]_vars

--------------------------------------------------------------------------
(* Properties of mergeRendererConfigs *)

\* The plugins of the fragments of rs, in list order.
RECURSIVE FragmentPlugins(_)
FragmentPlugins(rs) ==
    IF rs = <<>> THEN <<>>
    ELSE (IF Head(rs).hasViteConfig THEN Head(rs).viteConfig.plugins ELSE <<>>)
         \o FragmentPlugins(Tail(rs))

\* The renderers whose fragment sets the scalar key.
ModeSetters(rs) ==
    {i \in DOMAIN rs : rs[i].hasViteConfig /\ rs[i].viteConfig.mode # "<undefined>"}

QFragment == [hasViteConfig |-> TRUE,
              viteConfig |-> [plugins |-> <<"Q">>, mode |-> "<undefined>"]]
RFragment == [hasViteConfig |-> TRUE,
              viteConfig |-> [plugins |-> <<"R">>, mode |-> "<undefined>"]]

\* C10: mergeRendererConfigs is a left fold in registration order: from the
\* base config each fragment is merged onto the accumulator in list order, a
\* renderer without a fragment leaves the accumulator unchanged, base
\* {plugins: [P]} with fragments [{plugins: [Q]}, {plugins: [R]}] gives the
\* plugins [P, Q, R], and with no renderers the base config is returned.
C10_LeftFold ==
    mergedConfig.returned =>
       LET rs == userConfig.renderers
           withFragment == SelectSeq(rs, LAMBDA r : r.hasViteConfig)
           setters == ModeSetters(rs)
           out == mergedConfig.config
       IN  /\ out.plugins = baseConfig.plugins \o FragmentPlugins(rs)
           /\ out.mode = IF setters = {} THEN baseConfig.mode
                         ELSE rs[CHOOSE i \in setters : \A j \in setters : j <= i]
                                 .viteConfig.mode
           /\ out = mergeRendererConfigs(baseConfig,
                       [hasRenderers |-> TRUE, renderers |-> withFragment])
           /\ (baseConfig.plugins = <<"P">> /\ rs = <<QFragment, RFragment>>) =>
                 out.plugins = <<"P", "Q", "R">>
           /\ rs = <<>> => out = baseConfig

\* C10 witness: the base {plugins: [P]} was merged with the fragments
\* [{plugins: [Q]}, {plugins: [R]}].
C10_Witness ==
    /\ mergedConfig.returned
    /\ baseConfig.plugins = <<"P">>
    /\ userConfig.renderers = <<QFragment, RFragment>>
    /\ mergedConfig.config.plugins = <<"P", "Q", "R">>

==========================================================================
